---- MODULE Spec2Model ----
(***************************************************************************)
(* State-machine model of the document chunking core of the RLM package    *)
(* (src/rlm/core.py): RLMContext.chunk and the three chunking functions    *)
(* chunk_document, chunk_by_paragraphs and chunk_by_headers, together with *)
(* RLMContext.search and the task list of RLMOrchestrator                  *)
(* (src/rlm/orchestrator.py).                                              *)
(*                                                                         *)
(* A document is a sequence of one-character strings.  Offsets are the     *)
(* 0-based Python offsets of the source; At(s, i) reads s[i].              *)
(***************************************************************************)
EXTENDS Integers, Sequences, FiniteSets, TLC

VARIABLES
    document,       \* RLMContext.document
    metadata,       \* RLMContext.metadata
    buffer,         \* RLMContext.buffer
    chunks,         \* RLMContext.chunks
    sub_call_results, \* RLMContext.sub_call_results
    pc,             \* position of the running call: "idle", "chunk", "uniform",
                    \* "paragraph", "semantic"
    result,         \* outcome of the last call: "none", "returned", "raised"
    strategy,       \* argument of RLMContext.chunk
    chunk_size,     \* argument of RLMContext.chunk (max_chunk_size in the packers)
    overlap,        \* argument of RLMContext.chunk
    start,          \* chunk_document: local start
    index,          \* local index of the running chunking function
    out,            \* local list `chunks` of the running chunking function
    paragraphs,     \* chunk_by_paragraphs: local paragraphs
    sections,       \* chunk_by_headers: local sections
    i,              \* position in paragraphs / sections
    current_chunk,  \* local current_chunk of the packers
    current_start,  \* local current_start of the packers
    pattern,        \* argument of RLMContext.search
    flags,          \* argument of RLMContext.search
    matches,        \* search: local list matches
    scan,           \* search: state of the re.finditer iterator, [pos, must_advance]
    search_result,  \* list returned by the last RLMContext.search
    pending_tasks,      \* RLMOrchestrator.pending_tasks
    completed_results,  \* RLMOrchestrator.completed_results
    task_description,   \* argument of RLMOrchestrator.create_chunk_tasks
    agent_type,         \* argument of RLMOrchestrator.create_chunk_tasks
    parallel,           \* argument of RLMOrchestrator.create_chunk_tasks
    chunk_filter        \* argument of RLMOrchestrator.create_chunk_tasks

vars == <<document, metadata, buffer, chunks, sub_call_results, pc, result, strategy, chunk_size, overlap, start,
          index, out, paragraphs, sections, i, current_chunk, current_start,
          pattern, flags, matches, scan, search_result,
          pending_tasks, completed_results, task_description, agent_type, parallel, chunk_filter>>

\* the RLMContext fields other than chunks
field_vars == <<document, metadata, buffer, sub_call_results>>
ctx_vars == <<field_vars, chunks>>
call_vars == <<strategy, chunk_size, overlap>>
\* the locals of the chunking functions
local_vars == <<start, index, out, paragraphs, sections, i, current_chunk, current_start>>
uniform_vars == <<start>>
pack_vars == <<paragraphs, sections, i, current_chunk, current_start>>
\* the arguments, the locals and the return value of search
search_vars == <<pattern, flags, matches, scan, search_result>>
\* the fields of the RLMOrchestrator and the arguments of create_chunk_tasks
orch_vars == <<pending_tasks, completed_results, task_description, agent_type, parallel, chunk_filter>>

-----------------------------------------------------------------------------
(* Bounds of the model *)

MaxLen == 4         \* longest exhaustively enumerated document
MaxChunkSize == 3   \* largest chunk_size / overlap tried on the short documents
MaxIter == 12       \* cap on loop iterations of chunk_document (it need not terminate)
LargeLen == 1000    \* length of the long documents (spec scenario: 1000 x "A")

-----------------------------------------------------------------------------
(* Characters *)

NL == "\n"
SP == " "
DOT == "."
HASH == "#"

\* \s of the regular expressions and the set str.strip() removes, on the
\* characters the documents are built from
Whitespace == {NL, SP}
IsSpace(c) == c \in Whitespace

-----------------------------------------------------------------------------
(* Python primitives used by the source *)

Min(a, b) == IF a < b THEN a ELSE b
Max(a, b) == IF a > b THEN a ELSE b
SetMax(S) == CHOOSE x \in S : \A y \in S : y <= x
SetMin(S) == CHOOSE x \in S : \A y \in S : x <= y

At(s, k) == s[k + 1]

\* normalisation of a slice / find bound: negative counts from the end,
\* then clipped to [0, n]
ClampIndex(k, n) == IF k < 0 THEN Max(n + k, 0) ELSE Min(k, n)

\* s[lo:hi]
Slice(s, lo, hi) ==
    LET l == ClampIndex(lo, Len(s))
        h == ClampIndex(hi, Len(s))
    IN  IF l >= h THEN <<>> ELSE SubSeq(s, l + 1, h)

\* s.rfind(sub, lo, hi): highest k with lo <= k, k + len(sub) <= hi and
\* s[k:k+len(sub)] == sub, after normalising lo and hi; -1 if none
rfind(s, sub, lo, hi) ==
    LET l == ClampIndex(lo, Len(s))
        h == ClampIndex(hi, Len(s))
        found == {k \in l..(h - Len(sub)) : SubSeq(s, k + 1, k + Len(sub)) = sub}
    IN  IF found = {} THEN -1 ELSE SetMax(found)

\* ChunkInfo(index, start_char, end_char, content, token_estimate=len(content) // 4)
ChunkInfo(idx, s, e, content) ==
    [index |-> idx, start_char |-> s, end_char |-> e, content |-> content,
     token_estimate |-> Len(content) \div 4]

\* no chunking function is running: its locals do not exist
NoLocals ==
    /\ start = 0
    /\ index = 0
    /\ out = <<>>
    /\ paragraphs = <<>>
    /\ sections = <<>>
    /\ i = 0
    /\ current_chunk = <<>>
    /\ current_start = 0

\* a chunking function returns: its locals go away
DropLocals ==
    /\ start' = 0
    /\ index' = 0
    /\ out' = <<>>
    /\ paragraphs' = <<>>
    /\ sections' = <<>>
    /\ i' = 0
    /\ current_chunk' = <<>>
    /\ current_start' = 0

\* search has not been called: no arguments, no locals, no returned list
NoSearch ==
    /\ pattern = <<>>
    /\ flags = 0
    /\ matches = <<>>
    /\ scan = [pos |-> 0, must_advance |-> FALSE]
    /\ search_result = <<>>

\* RLMOrchestrator(ctx): __init__, and create_chunk_tasks not yet called (its
\* arguments at their defaults)
NewOrchestrator ==
    /\ pending_tasks = <<>>
    /\ completed_results = <<>>
    /\ task_description = ""
    /\ agent_type = "sisyphus-junior"
    /\ parallel = TRUE
    /\ chunk_filter = "None"

-----------------------------------------------------------------------------
(* chunk_document: one iteration of the while loop *)

Lookback == 200

\* uniform_end without the clip of the provisional end to len(document)
uniform_end_unclipped(doc, st, size) ==
    LET p == st + size
        newline_pos == rfind(doc, <<NL>>, p - Lookback, p)
        period_pos == rfind(doc, <<DOT, SP>>, p - Lookback, p)
    IN  IF p < Len(doc)
        THEN IF newline_pos > st THEN newline_pos + 1
             ELSE IF period_pos > st THEN period_pos + 2
             ELSE p
        ELSE p

\* lines 165-177: the provisional end and its snap back to a newline or ". "
uniform_end(doc, st, size) ==
    LET p == Min(st + size, Len(doc))
        newline_pos == rfind(doc, <<NL>>, p - Lookback, p)
        period_pos == rfind(doc, <<DOT, SP>>, p - Lookback, p)
    IN  IF p < Len(doc)
        THEN IF newline_pos > st THEN newline_pos + 1
             ELSE IF period_pos > st THEN period_pos + 2
             ELSE p
        ELSE p

\* uniform_next_start one character too far
uniform_next_start_skip(doc, e, ov) == IF e < Len(doc) THEN e + 1 - ov ELSE e

\* line 189
uniform_next_start(doc, e, ov) == IF e < Len(doc) THEN e - ov ELSE e

\* RLMContext.chunk, branch strategy == "uniform", up to the loop head
ChunkUniform ==
    /\ pc = "chunk"
    /\ strategy = "uniform"
    /\ pc' = "uniform"
    /\ start' = 0
    /\ index' = 0
    /\ out' = <<>>
    /\ UNCHANGED <<ctx_vars, call_vars, search_vars, orch_vars, pack_vars, result>>

\* one pass through the body of `while start < len(document)`
UniformIter ==
    /\ pc = "uniform"
    /\ start < Len(document)
    /\ index < MaxIter
    /\ LET end == uniform_end(document, start, chunk_size)
       IN  /\ out' = Append(out, ChunkInfo(index, start, end, Slice(document, start, end)))
           /\ start' = uniform_next_start(document, end, overlap)
    /\ index' = index + 1
    /\ UNCHANGED <<ctx_vars, call_vars, search_vars, orch_vars, pack_vars, pc, result>>

\* loop exit, return chunks; RLMContext.chunk stores and returns them
UniformReturn ==
    /\ pc = "uniform"
    /\ ~(start < Len(document))
    /\ chunks' = out
    /\ result' = "returned"
    /\ pc' = "idle"
    /\ DropLocals
    /\ UNCHANGED <<field_vars, call_vars, search_vars, orch_vars>>

-----------------------------------------------------------------------------
(* Regular expressions of the packers *)

\* first offset k >= from with k = len(s) or s[k] not in cs: the end of the
\* run of cs-characters that starts at from (a greedy character class)
RunEnd(s, from, cs) ==
    SetMin({k \in from..Len(s) : k = Len(s) \/ At(s, k) \notin cs})

\* first offset k >= from with k = len(s) or s[k] a newline: where a greedy
\* .+ that starts at from stops, and where $ matches
LineEnd(s, from) ==
    SetMin({k \in from..Len(s) : k = Len(s) \/ At(s, k) = NL})

\* end of the match of \n\s*\n at offset k, -1 if it does not match there:
\* \s* is greedy, so the match ends after the last newline of the whitespace
\* run that follows s[k]
blank_match_end(s, k) ==
    IF k >= Len(s) \/ At(s, k) # NL THEN -1
    ELSE LET r == RunEnd(s, k + 1, Whitespace)
             nls == {j \in (k + 1)..(r - 1) : At(s, j) = NL}
         IN  IF nls = {} THEN -1 ELSE SetMax(nls) + 1

\* end of the match of ^#{1,6}\s+.+$ (re.MULTILINE) at offset k, -1 if it
\* does not match there.  ^: k is 0 or follows a newline.  #{1,6}\s+: the
\* whole run of 1..6 hashes, then whitespace.  \s+ is greedy and gives back
\* until .+ finds a character other than a newline; .+ then runs to the end
\* of that line, where $ matches.
header_match_end(s, k) ==
    IF k >= Len(s) \/ At(s, k) # HASH \/ (k > 0 /\ At(s, k - 1) # NL) THEN -1
    ELSE LET q == RunEnd(s, k, {HASH})
             r == RunEnd(s, q, Whitespace)
             ms == {m \in (q + 1)..r : m < Len(s) /\ At(s, m) # NL}
         IN  IF q - k > 6 \/ r = q \/ ms = {} THEN -1
             ELSE LineEnd(s, SetMax(ms))

\* re.split(r'\n\s*\n', s[from:]): the pieces between the matches
RECURSIVE split_blank(_, _)
split_blank(s, from) ==
    LET hits == {k \in from..Len(s) : blank_match_end(s, k) # -1}
    IN  IF hits = {} THEN <<Slice(s, from, Len(s))>>
        ELSE LET k == SetMin(hits)
             IN  <<Slice(s, from, k)>> \o split_blank(s, blank_match_end(s, k))

\* re.split(r'(^#{1,6}\s+.+$)', s[from:], flags=re.MULTILINE): the pieces
\* between the matches, each match kept (capturing group) after its piece
RECURSIVE split_headers(_, _)
split_headers(s, from) ==
    LET hits == {k \in from..Len(s) : header_match_end(s, k) # -1}
    IN  IF hits = {} THEN <<Slice(s, from, Len(s))>>
        ELSE LET k == SetMin(hits)
                 e == header_match_end(s, k)
             IN  <<Slice(s, from, k), Slice(s, k, e)>> \o split_headers(s, e)

\* re.match(r'^#{1,6}\s+', section)
is_header(section) ==
    \E h \in 1..6 :
        /\ Len(section) > h
        /\ \A k \in 0..(h - 1) : At(section, k) = HASH
        /\ IsSpace(At(section, h))

\* bool(text.strip())
strip_nonempty(text) == \E k \in 1..Len(text) : ~IsSpace(text[k])

-----------------------------------------------------------------------------
(* chunk_by_paragraphs *)

PARA_SEP == <<NL, NL>>

\* RLMContext.chunk, branch strategy == "paragraph", up to the loop head
ChunkParagraph ==
    /\ pc = "chunk"
    /\ strategy = "paragraph"
    /\ pc' = "paragraph"
    /\ paragraphs' = split_blank(document, 0)
    /\ out' = <<>>
    /\ current_chunk' = <<>>
    /\ current_start' = 0
    /\ index' = 0
    /\ i' = 0
    /\ UNCHANGED <<ctx_vars, call_vars, search_vars, orch_vars, uniform_vars, sections, result>>

\* the packing test shared by both packers (lines 203 and 249)
must_emit(current, unit, max_chunk_size) ==
    Len(current) + Len(unit) > max_chunk_size /\ current # <<>>

\* one pass through the body of `for para in paragraphs`
ParagraphIter ==
    /\ pc = "paragraph"
    /\ i < Len(paragraphs)
    /\ LET para == At(paragraphs, i)
       IN  IF must_emit(current_chunk, para, chunk_size)
           THEN /\ out' = Append(out, ChunkInfo(index, current_start,
                                    current_start + Len(current_chunk), current_chunk))
                /\ index' = index + 1
                /\ current_start' = current_start + Len(current_chunk)
                /\ current_chunk' = para \o PARA_SEP
           ELSE /\ current_chunk' = current_chunk \o para \o PARA_SEP
                /\ UNCHANGED <<out, index, current_start>>
    /\ i' = i + 1
    /\ UNCHANGED <<ctx_vars, call_vars, search_vars, orch_vars, uniform_vars, paragraphs, sections, pc, result>>

\* final_chunks without the append after the loop
final_chunks_forgotten(done, idx, cur_start, current) == done

\* final_chunks that keeps the last chunk whenever it is not empty
final_chunks_unstripped(done, idx, cur_start, current) ==
    IF current # <<>>
    THEN Append(done, ChunkInfo(idx, cur_start, cur_start + Len(current), current))
    ELSE done

\* lines 217-226 and 263-272: the last chunk is kept unless it is blank
final_chunks(done, idx, cur_start, current) ==
    IF strip_nonempty(current)
    THEN Append(done, ChunkInfo(idx, cur_start, cur_start + Len(current), current))
    ELSE done

\* end of the for loop, final chunk, return; RLMContext.chunk stores the list
ParagraphReturn ==
    /\ pc = "paragraph"
    /\ i = Len(paragraphs)
    /\ chunks' = final_chunks(out, index, current_start, current_chunk)
    /\ result' = "returned"
    /\ pc' = "idle"
    /\ DropLocals
    /\ UNCHANGED <<field_vars, call_vars, search_vars, orch_vars>>

-----------------------------------------------------------------------------
(* chunk_by_headers *)

\* RLMContext.chunk, branch strategy == "semantic", up to the loop head
ChunkSemantic ==
    /\ pc = "chunk"
    /\ strategy = "semantic"
    /\ pc' = "semantic"
    /\ sections' = split_headers(document, 0)
    /\ out' = <<>>
    /\ current_chunk' = <<>>
    /\ current_start' = 0
    /\ index' = 0
    /\ i' = 0
    /\ UNCHANGED <<ctx_vars, call_vars, search_vars, orch_vars, uniform_vars, paragraphs, result>>

\* lines 241-247: a header is joined with the section after it
takes_two(secs, k) == is_header(At(secs, k)) /\ k + 1 < Len(secs)

\* next_section that leaves out the section after a header
next_section_header_only(secs, k) == At(secs, k)

next_section(secs, k) ==
    IF takes_two(secs, k) THEN At(secs, k) \o At(secs, k + 1) ELSE At(secs, k)

\* one pass through the body of `while i < len(sections)`
SemanticIter ==
    /\ pc = "semantic"
    /\ i < Len(sections)
    /\ LET section == next_section(sections, i)
       IN  IF must_emit(current_chunk, section, chunk_size)
           THEN /\ out' = Append(out, ChunkInfo(index, current_start,
                                    current_start + Len(current_chunk), current_chunk))
                /\ index' = index + 1
                /\ current_start' = current_start + Len(current_chunk)
                /\ current_chunk' = section
           ELSE /\ current_chunk' = current_chunk \o section
                /\ UNCHANGED <<out, index, current_start>>
    /\ i' = IF takes_two(sections, i) THEN i + 2 ELSE i + 1
    /\ UNCHANGED <<ctx_vars, call_vars, search_vars, orch_vars, uniform_vars, paragraphs, sections, pc, result>>

\* end of the while loop, final chunk, return; RLMContext.chunk stores the list
SemanticReturn ==
    /\ pc = "semantic"
    /\ ~(i < Len(sections))
    /\ chunks' = final_chunks(out, index, current_start, current_chunk)
    /\ result' = "returned"
    /\ pc' = "idle"
    /\ DropLocals
    /\ UNCHANGED <<field_vars, call_vars, search_vars, orch_vars>>

\* ChunkUnknown that clears self.chunks before it raises
ChunkUnknown_clears ==
    /\ pc = "chunk"
    /\ strategy \notin {"uniform", "paragraph", "semantic"}
    /\ chunks' = <<>>
    /\ result' = "raised"
    /\ pc' = "idle"
    /\ UNCHANGED <<field_vars, call_vars, search_vars, orch_vars, local_vars>>

\* RLMContext.chunk, else branch: raise ValueError
ChunkUnknown ==
    /\ pc = "chunk"
    /\ strategy \notin {"uniform", "paragraph", "semantic"}
    /\ result' = "raised"
    /\ pc' = "idle"
    /\ UNCHANGED <<ctx_vars, call_vars, search_vars, orch_vars, local_vars>>

-----------------------------------------------------------------------------
(* Inputs *)

RECURSIVE SeqsUpTo(_, _)
SeqsUpTo(S, n) ==
    IF n = 0 THEN {<<>>}
    ELSE LET shorter == SeqsUpTo(S, n - 1)
         IN  shorter \cup {Append(s, c) : s \in {t \in shorter : Len(t) = n - 1}, c \in S}

UniformAlphabet == {"a", NL, DOT, SP}

\* a long document of "A"s with an optional newline at offset nl and an
\* optional ". " at offset dot (-1: absent)
LargeDoc(n, nl, dot) ==
    [k \in 1..n |-> IF k - 1 = nl THEN NL
                    ELSE IF k - 1 = dot THEN DOT
                    ELSE IF k - 1 = dot + 1 /\ dot >= 0 THEN SP
                    ELSE "A"]

LargeMarks == {-1, 10, 60, 260, 420}

UniformInputs ==
    [document : SeqsUpTo(UniformAlphabet, MaxLen),
     chunk_size : -1..MaxChunkSize, overlap : 0..MaxChunkSize]
    \cup
    [document : {LargeDoc(LargeLen, nl, dot) : nl \in LargeMarks, dot \in LargeMarks \ {10}},
     chunk_size : {100, 200, 205, 300}, overlap : {12, 50}]

\* create_metadata(document)
create_metadata(doc) ==
    LET secs == split_headers(doc, 0)
        headers == [k \in 1..((Len(secs) - 1) \div 2) |-> secs[2 * k]]
    IN  [char_count |-> Len(doc),
         token_estimate |-> Len(doc) \div 4,
         line_count |-> Cardinality({k \in 1..Len(doc) : doc[k] = NL}) + 1,
         word_count |-> Cardinality({k \in 1..Len(doc) :
                            ~IsSpace(doc[k]) /\ (k = 1 \/ IsSpace(doc[k - 1]))}),
         header_count |-> Len(headers),
         headers_preview |-> Slice(headers, 0, 10),
         first_500_chars |-> Slice(doc, 0, 500),
         last_500_chars |-> IF Len(doc) > 500 THEN Slice(doc, -500, Len(doc)) ELSE doc]

\* RLMContext(document): __post_init__ and the field defaults
NewContext(doc) ==
    /\ document = doc
    /\ metadata = create_metadata(doc)
    /\ buffer = <<>>
    /\ chunks = <<>>
    /\ sub_call_results = <<>>

\* a fresh RLMContext on which chunk(chunk_size, overlap, "uniform") is called
InitUniform ==
    /\ \E inp \in UniformInputs :
          /\ NewContext(inp.document)
          /\ chunk_size = inp.chunk_size
          /\ overlap = inp.overlap
    /\ strategy = "uniform"
    /\ pc = "chunk"
    /\ result = "none"
    /\ NoLocals
    /\ NoSearch
    /\ NewOrchestrator

NextUniform == ChunkUniform \/ UniformIter \/ UniformReturn

SpecUniform == InitUniform /\ [][NextUniform]_vars

-----------------------------------------------------------------------------
(* The packers on their own *)

PackAlphabet == {"a", NL, SP, HASH}

\* "Para one.\n\nPara two.\n\nPara three."
ParaScenario ==
    <<"P","a","r","a"," ","o","n","e",".", NL, NL,
      "P","a","r","a"," ","t","w","o",".", NL, NL,
      "P","a","r","a"," ","t","h","r","e","e",".">>

\* "# H1\nbody1\n# H2\nbody2"
HeaderScenario ==
    <<"#"," ","H","1", NL, "b","o","d","y","1", NL,
      "#"," ","H","2", NL, "b","o","d","y","2">>

MaxPackLen == 5     \* longest exhaustively enumerated document of the packers
MaxPackSize == 4    \* largest max_chunk_size tried on the short documents

PackInputs ==
    [document : SeqsUpTo(PackAlphabet, MaxPackLen), chunk_size : -1..MaxPackSize]
    \cup
    [document : {ParaScenario, HeaderScenario}, chunk_size : {5, 15, 25, 1000}]

\* a fresh RLMContext on which chunk(chunk_size, strategy=...) is called
\* with one of the two packing strategies
InitPack ==
    /\ \E inp \in PackInputs :
          /\ NewContext(inp.document)
          /\ chunk_size = inp.chunk_size
    /\ strategy \in {"paragraph", "semantic"}
    /\ overlap = 500
    /\ pc = "chunk"
    /\ result = "none"
    /\ NoLocals
    /\ NoSearch
    /\ NewOrchestrator

NextPack ==
    \/ ChunkParagraph \/ ParagraphIter \/ ParagraphReturn
    \/ ChunkSemantic \/ SemanticIter \/ SemanticReturn

SpecPack == InitPack /\ [][NextPack]_vars

-----------------------------------------------------------------------------
(* The context over a sequence of calls *)

MaxCtxLen == 2      \* longest exhaustively enumerated document of the context
MaxCtxSize == 2     \* largest chunk_size tried on the context
MaxSubCalls == 1    \* cap on len(sub_call_results)

Strategies == {"uniform", "paragraph", "semantic", "by_tokens"}

\* "a\n\nb" and "a\n# b"
CtxDocs ==
    SeqsUpTo(PackAlphabet, MaxCtxLen) \cup {<<"a", NL, NL, "b">>, <<"a", NL, HASH, SP, "b">>}

\* ctx.chunk(chunk_size=size, overlap=ov, strategy=strat) is called
Call(strat, size, ov) ==
    /\ pc = "idle"
    /\ strategy' = strat
    /\ chunk_size' = size
    /\ overlap' = ov
    /\ pc' = "chunk"
    /\ result' = "none"
    /\ UNCHANGED <<ctx_vars, local_vars, search_vars, orch_vars>>

\* ctx.store_result(key, value)
store_result(key, value) ==
    /\ pc = "idle"
    /\ buffer' = [k \in DOMAIN buffer \cup {key} |-> IF k = key THEN value ELSE buffer[k]]
    /\ UNCHANGED <<document, metadata, chunks, sub_call_results, call_vars, search_vars, orch_vars, local_vars,
                   pc, result>>

\* ctx.record_sub_call(chunk_index, query, result)
record_sub_call(chunk_index, query, res) ==
    /\ pc = "idle"
    /\ Len(sub_call_results) < MaxSubCalls
    /\ sub_call_results' = Append(sub_call_results,
                              [chunk_index |-> chunk_index, query |-> query, result |-> res])
    /\ UNCHANGED <<document, metadata, buffer, chunks, call_vars, search_vars, orch_vars, local_vars, pc, result>>

Init ==
    /\ \E doc \in CtxDocs : NewContext(doc)
    /\ strategy = "uniform"
    /\ chunk_size = 50000
    /\ overlap = 500
    /\ pc = "idle"
    /\ result = "none"
    /\ NoLocals
    /\ NoSearch
    /\ NewOrchestrator

Next ==
    \/ \E strat \in Strategies, size \in 1..MaxCtxSize, ov \in 0..1 : Call(strat, size, ov)
    \/ ChunkUniform \/ UniformIter \/ UniformReturn
    \/ ChunkParagraph \/ ParagraphIter \/ ParagraphReturn
    \/ ChunkSemantic \/ SemanticIter \/ SemanticReturn
    \/ ChunkUnknown
    \/ \E value \in {"v1", "v2"} : store_result("findings", value)
    \/ \E k \in 0..1 : record_sub_call(k, "q", "r")

Spec == Init /\ [][Next]_vars

-----------------------------------------------------------------------------
(* RLMContext.search *)

ContextRadius == 50

\* re.IGNORECASE
IGNORECASE == 2

\* the lower-case form of the letters the documents are built from
Lower(c) ==
    CASE c = "A" -> "a"
      [] c = "B" -> "b"
      [] c = "M" -> "m"
      [] OTHER -> c

\* A pattern is a sequence of atoms [cs, q]: a character set cs (a literal
\* is a set of one character) and a quantifier q, "1" (exactly one), "*"
\* or "+" (greedy).  atom_accepts: the atom matches the character c under
\* the flags fl.
atom_accepts(atom, c, fl) ==
    \/ c \in atom.cs
    \/ fl = IGNORECASE /\ \E d \in atom.cs : Lower(d) = Lower(c)

\* end of the match of the atoms j.. of pat at offset k of s, -1 if there is
\* none; a greedy quantifier takes the longest run for which the rest of the
\* pattern still matches (backtracking)
RECURSIVE match_end(_, _, _, _, _)
match_end(pat, j, s, k, fl) ==
    IF j > Len(pat) THEN k
    ELSE LET atom == pat[j]
             run == SetMin({r \in k..Len(s) : r = Len(s) \/ ~atom_accepts(atom, At(s, r), fl)}) - k
             least == IF atom.q = "*" THEN 0 ELSE 1
             most == IF atom.q = "1" THEN Min(run, 1) ELSE run
             ok == {c \in least..most : match_end(pat, j + 1, s, k + c, fl) # -1}
         IN  IF ok = {} THEN -1 ELSE match_end(pat, j + 1, s, k + SetMax(ok), fl)

\* the offsets at which the iterator can produce its next match: a match
\* exists there, and right after an empty match an empty match at the same
\* offset is not produced again
next_starts(pat, s, fl, sc) ==
    {k \in sc.pos..Len(s) :
        /\ match_end(pat, 1, s, k, fl) # -1
        /\ ~(sc.must_advance /\ k = sc.pos /\ match_end(pat, 1, s, k, fl) = k)}

\* context_window without the max(0, ...) on its lower bound
context_window_unclipped(doc, m_start, m_end) ==
    Slice(doc, m_start - ContextRadius, m_end + ContextRadius)

\* line 53: self.document[max(0, m.start()-50):m.end()+50]
context_window(doc, m_start, m_end) ==
    Slice(doc, Max(0, m_start - ContextRadius), m_end + ContextRadius)

\* ctx.search(pattern, flags) is called: matches = [], the iterator is created
Search(pat, fl) ==
    /\ pc = "idle"
    /\ pattern' = pat
    /\ flags' = fl
    /\ matches' = <<>>
    /\ scan' = [pos |-> 0, must_advance |-> FALSE]
    /\ pc' = "search"
    /\ result' = "none"
    /\ UNCHANGED <<ctx_vars, call_vars, local_vars, orch_vars, search_result>>

\* one pass through the body of `for m in re.finditer(...)`
SearchIter ==
    /\ pc = "search"
    /\ next_starts(pattern, document, flags, scan) # {}
    /\ LET m_start == SetMin(next_starts(pattern, document, flags, scan))
           m_end == match_end(pattern, 1, document, m_start, flags)
       IN  /\ matches' = Append(matches,
                  [match |-> Slice(document, m_start, m_end),
                   start |-> m_start,
                   end |-> m_end,
                   groups |-> <<>>,
                   context |-> context_window(document, m_start, m_end)])
           /\ scan' = [pos |-> m_end, must_advance |-> m_end = m_start]
    /\ UNCHANGED <<ctx_vars, call_vars, local_vars, orch_vars, pattern, flags, search_result, pc, result>>

\* the iterator is exhausted: return matches
SearchReturn ==
    /\ pc = "search"
    /\ next_starts(pattern, document, flags, scan) = {}
    /\ search_result' = matches
    /\ matches' = <<>>
    /\ scan' = [pos |-> 0, must_advance |-> FALSE]
    /\ result' = "returned"
    /\ pc' = "idle"
    /\ UNCHANGED <<ctx_vars, call_vars, local_vars, orch_vars, pattern, flags>>

MaxSearchLen == 3      \* longest exhaustively enumerated document of search
LongSearchLen == 120   \* length of the long documents of search

SearchAlphabet == {"a", "A", "b"}

Lit(c) == [cs |-> {c}, q |-> "1"]
Star(cs) == [cs |-> cs, q |-> "*"]
Plus(cs) == [cs |-> cs, q |-> "+"]

WordChars == {"a", "A", "b", "B", "M", "e", "t", "r", "i", "c"}

\* Metric \w+
MetricPattern ==
    <<Lit("M"), Lit("e"), Lit("t"), Lit("r"), Lit("i"), Lit("c"), Lit(" "), Plus(WordChars)>>

\* a, a+, a*, ab, a*a, a*b, [ab]+, the empty pattern, Metric \w+
SearchPatterns ==
    {<<Lit("a")>>, <<Plus({"a"})>>, <<Star({"a"})>>, <<Lit("a"), Lit("b")>>,
     <<Star({"a"}), Lit("a")>>, <<Star({"a"}), Lit("b")>>, <<Plus({"a", "b"})>>,
     <<>>, MetricPattern}

\* a long document of spaces with "a" at the offsets of marks
LongSearchDoc(n, marks) == [k \in 1..n |-> IF k - 1 \in marks THEN "a" ELSE " "]

\* 120 spaces, "Metric A", 60 spaces: "Metric A" at offset 120
MetricDoc ==
    [k \in 1..120 |-> " "] \o <<"M", "e", "t", "r", "i", "c", " ", "A">> \o [k \in 1..60 |-> " "]

SearchDocs ==
    SeqsUpTo(SearchAlphabet, MaxSearchLen)
    \cup {LongSearchDoc(LongSearchLen, marks) :
             marks \in SUBSET {0, 40, 41, LongSearchLen - 1}}
    \cup {MetricDoc}

\* the patterns tried on a document: all of them on the short documents,
\* a, a+ and Metric \w+ on the long ones
PatternsFor(doc) ==
    IF Len(doc) <= MaxSearchLen + 1 THEN SearchPatterns
    ELSE {<<Lit("a")>>, <<Plus({"a"})>>, MetricPattern}

InitSearch ==
    /\ \E doc \in SearchDocs : NewContext(doc)
    /\ strategy = "uniform"
    /\ chunk_size = 50000
    /\ overlap = 500
    /\ pc = "idle"
    /\ result = "none"
    /\ NoLocals
    /\ NoSearch
    /\ NewOrchestrator

NextSearch ==
    \/ \E pat \in PatternsFor(document), fl \in {0, IGNORECASE} : Search(pat, fl)
    \/ SearchIter
    \/ SearchReturn

SpecSearch == InitSearch /\ [][NextSearch]_vars

-----------------------------------------------------------------------------
(* RLMOrchestrator *)

\* SubAgentTask(chunk, task_description, agent_type, run_in_background)
SubAgentTask(chunk, description, agent, background) ==
    [chunk |-> chunk, task_description |-> description, agent_type |-> agent,
     run_in_background |-> background]

\* the chunk filters tried: None (no filter), and three predicates on a chunk
ChunkFilters == {"None", "even_index", "has_text", "reject_all"}

\* chunk_filter(c), for a filter other than None
passes(filter, c) ==
    CASE filter = "even_index" -> c.index % 2 = 0
      [] filter = "has_text" -> strip_nonempty(c.content)
      [] filter = "reject_all" -> FALSE

\* lines 72-74: the chunks of the context, filtered if a filter is given
selected_chunks(all, filter) ==
    IF filter = "None" THEN all ELSE SelectSeq(all, LAMBDA c : passes(filter, c))

\* orchestrator.create_chunk_tasks(task_description, agent_type, parallel,
\* chunk_filter): the task list is built and replaces pending_tasks
create_chunk_tasks(description, agent, par, filter) ==
    /\ pc = "idle"
    /\ task_description' = description
    /\ agent_type' = agent
    /\ parallel' = par
    /\ chunk_filter' = filter
    /\ LET picked == selected_chunks(chunks, filter)
       IN  pending_tasks' = [k \in 1..Len(picked) |->
                                SubAgentTask(picked[k], description, agent, par)]
    /\ UNCHANGED <<ctx_vars, call_vars, local_vars, search_vars, completed_results, pc, result>>

\* format_sub_agent_prompt(...): the values put into SUB_AGENT_PROMPT
format_sub_agent_prompt(description, chunk_index, total_chunks, start_char, end_char, total_chars, chunk_content) ==
    [task_description |-> description, chunk_index |-> chunk_index,
     total_chunks |-> total_chunks, start_char |-> start_char, end_char |-> end_char,
     total_chars |-> total_chars, chunk_content |-> chunk_content]

\* task.to_task_params(ctx), on the context as it is now
to_task_params(task) ==
    [subagent_type |-> task.agent_type,
     prompt |-> format_sub_agent_prompt(task.task_description, task.chunk.index, Len(chunks),
                    task.chunk.start_char, task.chunk.end_char, metadata.char_count,
                    task.chunk.content),
     description |-> <<"RLM chunk ", task.chunk.index>>,
     run_in_background |-> task.run_in_background]

\* "a\n\nb", "a\n# b", "aaa" and ""
OrchDocs == {<<"a", NL, NL, "b">>, <<"a", NL, HASH, SP, "b">>, <<"a", "a", "a">>, <<>>}

InitOrch ==
    /\ \E doc \in OrchDocs : NewContext(doc)
    /\ strategy = "uniform"
    /\ chunk_size = 50000
    /\ overlap = 500
    /\ pc = "idle"
    /\ result = "none"
    /\ NoLocals
    /\ NoSearch
    /\ NewOrchestrator

NextOrch ==
    \/ \E strat \in Strategies, size \in 1..MaxCtxSize : Call(strat, size, 0)
    \/ ChunkUniform \/ UniformIter \/ UniformReturn
    \/ ChunkParagraph \/ ParagraphIter \/ ParagraphReturn
    \/ ChunkSemantic \/ SemanticIter \/ SemanticReturn
    \/ ChunkUnknown
    \/ \E filter \in ChunkFilters, par \in BOOLEAN :
          create_chunk_tasks("find X", "sisyphus-junior", par, filter)

SpecOrch == InitOrch /\ [][NextOrch]_vars

-----------------------------------------------------------------------------
(* Vocabulary of the properties *)

Returned == pc = "idle" /\ result = "returned"

\* chunk_size > overlap >= 0 (hence chunk_size > 0)
ValidUniform == chunk_size > overlap /\ overlap >= 0

ValidPack == chunk_size > 0

ValidParams == IF strategy = "uniform" THEN ValidUniform ELSE ValidPack

InvalidParams ==
    \/ strategy = "uniform" /\ overlap >= chunk_size
    \/ strategy \in {"uniform", "paragraph", "semantic"} /\ chunk_size <= 0

Snapped(c) == c.end_char < Len(document) /\ c.end_char # c.start_char + chunk_size

-----------------------------------------------------------------------------
(* C1 *)

\* C1: when the uniform strategy returns for chunk_size > overlap >= 0, the
\* segments cover the document without gaps: a non-empty document has a
\* segment, the first starts at 0, each next one starts at or before the end
\* of the one before it, and the last ends at len(document).
C1_UniformCovers ==
    (Returned /\ strategy = "uniform" /\ ValidUniform) =>
        /\ Len(document) > 0 => chunks # <<>>
        /\ chunks # <<>> =>
              /\ chunks[1].start_char = 0
              /\ chunks[Len(chunks)].end_char = Len(document)
        /\ \A k \in 1..(Len(chunks) - 1) : chunks[k + 1].start_char <= chunks[k].end_char

\* a returned cover of three or more overlapping segments, one of them cut
\* at a boundary character
C1_Witness ==
    /\ Returned /\ strategy = "uniform" /\ ValidUniform
    /\ overlap > 0
    /\ Len(chunks) >= 3
    /\ \E k \in 1..Len(chunks) : Snapped(chunks[k])

-----------------------------------------------------------------------------
(* C2 *)

\* C2: for chunk_size > overlap >= 0 the start position strictly advances
\* on every iteration of the uniform loop: at the loop head, start is beyond
\* the start of the segment emitted last.
C2_StartAdvances ==
    (pc = "uniform" /\ ValidUniform /\ out # <<>>) => start > out[Len(out)].start_char

-----------------------------------------------------------------------------
(* C3 *)

\* C3: a call with overlap >= chunk_size (uniform) or chunk_size <= 0 (any
\* strategy) is rejected: it produces no segment and does not return.
C3_InvalidRejected ==
    InvalidParams => (out = <<>> /\ result # "returned")

-----------------------------------------------------------------------------
(* C4 *)

\* C4: RLMContext.chunk with a strategy name other than uniform, paragraph
\* or semantic raises at the call and leaves chunks, document, metadata,
\* buffer and sub_call_results as they were.
C4_UnknownStrategyRaises ==
    [][(pc = "chunk" /\ strategy \notin {"uniform", "paragraph", "semantic"}) =>
          /\ result' = "raised"
          /\ pc' = "idle"
          /\ UNCHANGED <<document, metadata, buffer, chunks, sub_call_results>>]_vars

\* the call raised on a context that holds chunks, a result and a sub-call
C4_Witness ==
    /\ pc = "idle" /\ result = "raised" /\ strategy = "by_tokens"
    /\ chunks # <<>>
    /\ buffer # <<>>
    /\ sub_call_results # <<>>

-----------------------------------------------------------------------------
(* C5 *)

\* C5: every segment returned by any strategy for valid parameters has
\* 0 <= start_char < end_char <= len(document).
C5_OffsetsInRange ==
    (Returned /\ ValidParams) =>
        \A k \in 1..Len(chunks) :
            /\ 0 <= chunks[k].start_char
            /\ chunks[k].start_char < chunks[k].end_char
            /\ chunks[k].end_char <= Len(document)

-----------------------------------------------------------------------------
(* C6 *)

\* C6: every segment returned by any strategy has
\* content == document[start_char:end_char].
C6_ContentIsSlice ==
    (Returned /\ ValidParams) =>
        \A k \in 1..Len(chunks) :
            chunks[k].content = Slice(document, chunks[k].start_char, chunks[k].end_char)

-----------------------------------------------------------------------------
(* C7 *)

\* C7: in the sequence returned by any strategy for valid parameters,
\* start_char and end_char never decrease from a segment to the next.
C7_OffsetsMonotone ==
    (Returned /\ ValidParams) =>
        \A k \in 1..(Len(chunks) - 1) :
            /\ chunks[k].start_char <= chunks[k + 1].start_char
            /\ chunks[k].end_char <= chunks[k + 1].end_char

-----------------------------------------------------------------------------
(* Structural units, read off the document independently of the packers *)

RECURSIVE Flatten(_)
Flatten(ss) == IF ss = <<>> THEN <<>> ELSE Head(ss) \o Flatten(Tail(ss))

\* total length of the first k elements of a sequence of strings
CumLen(ss, k) == Len(Flatten(SubSeq(ss, 1, k)))

\* the text of each unit: the paragraphs between blank-line separators, or
\* the text before the first heading followed by each heading with its body
UnitTexts ==
    IF strategy = "paragraph" THEN split_blank(document, 0)
    ELSE LET secs == split_headers(document, 0)
         IN  <<secs[1]>> \o [k \in 1..((Len(secs) - 1) \div 2) |-> secs[2 * k] \o secs[2 * k + 1]]

\* each unit as it is written into a segment: a paragraph is followed by the
\* separator "\n\n", a heading unit is copied as it is
UnitsWritten ==
    IF strategy = "paragraph" THEN [k \in 1..Len(UnitTexts) |-> UnitTexts[k] \o PARA_SEP]
    ELSE UnitTexts

Contents == [k \in 1..Len(chunks) |-> chunks[k].content]

\* the segments are made of whole units in document order: their contents,
\* joined, are the first units joined, and every segment ends where a unit ends
WholeUnitsInOrder ==
    LET total == Len(Flatten(Contents))
        ends == {CumLen(UnitsWritten, k) : k \in 0..Len(UnitsWritten)}
    IN  /\ total <= Len(Flatten(UnitsWritten))
        /\ Flatten(Contents) = SubSeq(Flatten(UnitsWritten), 1, total)
        /\ \A j \in 0..Len(chunks) : CumLen(Contents, j) \in ends

\* the units that are in no segment: those that begin at or after the end of
\* the last segment
LeftOut ==
    {k \in 1..Len(UnitTexts) : CumLen(UnitsWritten, k - 1) >= Len(Flatten(Contents))}

\* the units with text that lie inside segment j
UnitsIn(j) ==
    {k \in 1..Len(UnitTexts) :
        /\ UnitTexts[k] # <<>>
        /\ CumLen(Contents, j - 1) <= CumLen(UnitsWritten, k - 1)
        /\ CumLen(UnitsWritten, k) <= CumLen(Contents, j)}

-----------------------------------------------------------------------------
(* C8 *)

\* C8 as stated: for every non-empty document and any max_size the packers
\* return segments made of whole units in document order, and every unit
\* with text is inside a segment.
C8_EveryUnitWhole ==
    (Returned /\ strategy \in {"paragraph", "semantic"} /\ document # <<>>) =>
        /\ WholeUnitsInOrder
        /\ \A k \in LeftOut : UnitTexts[k] = <<>>

\* C8 as amended: for every document and any max_size the packers return
\* segments made of whole units in document order (a unit larger than
\* max_size included); the units in no segment are blank (empty or
\* whitespace only) and come after every unit that is in a segment.
C8_UnitsWholeOrBlank ==
    (Returned /\ strategy \in {"paragraph", "semantic"}) =>
        /\ WholeUnitsInOrder
        /\ \A k \in LeftOut : ~strip_nonempty(UnitTexts[k])

\* three units, each larger than max_size, in three segments
C8_Witness ==
    /\ Returned /\ strategy \in {"paragraph", "semantic"}
    /\ Len(UnitTexts) = 3
    /\ Len(chunks) = 3
    /\ chunk_size > 0
    /\ \A k \in 1..3 : Len(UnitTexts[k]) > chunk_size
    /\ LeftOut = {}

\* a blank unit is left out after a segment was returned
C8_BlankLeftOut ==
    /\ Returned /\ strategy \in {"paragraph", "semantic"}
    /\ chunks # <<>>
    /\ \E k \in LeftOut : UnitTexts[k] # <<>>

-----------------------------------------------------------------------------
(* C9 *)

\* C9: a segment returned by a packer for max_size > 0 whose content is
\* longer than max_size consists of one unit: no two units with text lie
\* inside it.
C9_OversizedIsOneUnit ==
    (Returned /\ strategy \in {"paragraph", "semantic"} /\ ValidPack) =>
        \A j \in 1..Len(chunks) :
            Len(chunks[j].content) > chunk_size => Cardinality(UnitsIn(j)) <= 1

-----------------------------------------------------------------------------
(* C10 *)

NoBoundary(doc) ==
    /\ \A k \in 1..Len(doc) : doc[k] # NL
    /\ \A k \in 1..(Len(doc) - 1) : ~(doc[k] = DOT /\ doc[k + 1] = SP)

\* C10: on a document of length n without newline and without ". ", for
\* chunk_size > overlap >= 0, the uniform strategy returns the hard cuts
\* k -> [k * (chunk_size - overlap), min(k * (chunk_size - overlap) + chunk_size, n)),
\* k = 0, 1, ..., up to and including the first one that ends at n.
C10_HardCuts ==
    (Returned /\ strategy = "uniform" /\ ValidUniform /\ NoBoundary(document)) =>
        LET n == Len(document)
            step == chunk_size - overlap
            last == SetMin({k \in 0..n : k * step + chunk_size >= n})
        IN  IF n = 0 THEN chunks = <<>>
            ELSE /\ Len(chunks) = last + 1
                 /\ \A k \in 0..last :
                       /\ chunks[k + 1].index = k
                       /\ chunks[k + 1].start_char = k * step
                       /\ chunks[k + 1].end_char = Min(k * step + chunk_size, n)
                       /\ chunks[k + 1].content =
                             SubSeq(document, k * step + 1, Min(k * step + chunk_size, n))

\* the scenario: 1000 x "A", chunk_size 300, overlap 50
C10_Witness ==
    /\ Returned /\ strategy = "uniform"
    /\ Len(document) = 1000 /\ NoBoundary(document)
    /\ chunk_size = 300 /\ overlap = 50
    /\ Len(chunks) = 4
    /\ <<chunks[1].start_char, chunks[1].end_char>> = <<0, 300>>
    /\ <<chunks[2].start_char, chunks[2].end_char>> = <<250, 550>>
    /\ <<chunks[3].start_char, chunks[3].end_char>> = <<500, 800>>
    /\ <<chunks[4].start_char, chunks[4].end_char>> = <<750, 1000>>

-----------------------------------------------------------------------------
(* C12 *)

\* the cut the lookback preference asks for, for a segment that starts at st
\* and has the provisional cut p: after the last newline of the window
\* [p - 200, p] (clipped to the document) that lies after st, else after the
\* last ". " of that window that lies after st, else p
LookbackCut(doc, st, p) ==
    LET lo == Max(p - Lookback, 0)
        breaks == {k \in lo..(p - 1) : k > st /\ At(doc, k) = NL}
        stops == {k \in lo..(p - 2) : k > st /\ At(doc, k) = DOT /\ At(doc, k + 1) = SP}
    IN  IF breaks # {} THEN SetMax(breaks) + 1
        ELSE IF stops # {} THEN SetMax(stops) + 2
        ELSE p

\* C12: in the uniform strategy, for every segment with start >= 0 whose
\* provisional cut p = start + chunk_size is less than len(document), the
\* cut is the one the lookback preference asks for, also when p < 200.
C12_LookbackPreference ==
    (pc = "uniform" /\ ValidUniform /\ out # <<>>) =>
        LET c == out[Len(out)]
            p == c.start_char + chunk_size
        IN  (c.start_char >= 0 /\ p < Len(document)) =>
                c.end_char = LookbackCut(document, c.start_char, p)

-----------------------------------------------------------------------------
(* C13 *)

\* the step in which a packer leaves its loop and returns
PackerReturns == pc \in {"paragraph", "semantic"} /\ pc' = "idle"

\* C13 as stated: when a packer has returned for max_size > 0, a non-empty
\* document has at least one segment and no unit with text is outside the
\* segments.
C13_NothingDropped ==
    (Returned /\ strategy \in {"paragraph", "semantic"} /\ ValidPack) =>
        /\ document # <<>> => chunks # <<>>
        /\ \A k \in LeftOut : UnitTexts[k] = <<>>

\* C13 as amended: when the input is exhausted, the segments emitted so far
\* followed by the accumulated content are all units of the document; in
\* the step in which the packer returns, the accumulated content is emitted
\* as the final segment exactly when it has a character that is not
\* whitespace, and is discarded otherwise; every document with a
\* non-whitespace character yields at least one segment.
C13_FinalEmittedUnlessBlank ==
    [][PackerReturns =>
          /\ Flatten([k \in 1..Len(out) |-> out[k].content]) \o current_chunk
                = Flatten(UnitsWritten)
          /\ chunks' = IF strip_nonempty(current_chunk)
                       THEN Append(out, ChunkInfo(index, current_start,
                                       current_start + Len(current_chunk), current_chunk))
                       ELSE out
          /\ strip_nonempty(document) => chunks' # <<>>]_vars

\* a packer returned two or more segments that hold every unit, the last
\* one emitted after the loop
C13_Witness ==
    /\ Returned /\ strategy \in {"paragraph", "semantic"} /\ ValidPack
    /\ Len(chunks) >= 2
    /\ LeftOut = {}
    /\ Len(Flatten(Contents)) = Len(Flatten(UnitsWritten))
    /\ strip_nonempty(chunks[Len(chunks)].content)

\* a packer discarded a blank accumulated content of a non-empty document
C13_BlankDiscarded ==
    /\ Returned /\ strategy \in {"paragraph", "semantic"} /\ ValidPack
    /\ document # <<>>
    /\ chunks = <<>>

-----------------------------------------------------------------------------
(* C14 *)

\* C14: for the semantic strategy and max_size > 0 the returned segments
\* tile a prefix of the document: the first starts at 0, each next one
\* starts where the one before it ends, each content is
\* document[start_char:end_char], and what follows the last segment (the
\* whole document if there is none) is empty or whitespace only.
C14_SemanticTilesPrefix ==
    (Returned /\ strategy = "semantic" /\ ValidPack) =>
        LET covered == IF chunks = <<>> THEN 0 ELSE chunks[Len(chunks)].end_char
        IN  /\ chunks # <<>> => chunks[1].start_char = 0
            /\ \A k \in 1..(Len(chunks) - 1) : chunks[k + 1].start_char = chunks[k].end_char
            /\ \A k \in 1..Len(chunks) :
                  /\ 0 <= chunks[k].start_char
                  /\ chunks[k].start_char <= chunks[k].end_char
                  /\ chunks[k].end_char <= Len(document)
                  /\ chunks[k].content =
                        SubSeq(document, chunks[k].start_char + 1, chunks[k].end_char)
            /\ ~strip_nonempty(SubSeq(document, covered + 1, Len(document)))

\* the semantic strategy returned two or more segments, one of them a
\* heading with its body
C14_Witness ==
    /\ Returned /\ strategy = "semantic" /\ ValidPack
    /\ Len(chunks) >= 2
    /\ \E k \in 1..Len(chunks) :
          /\ is_header(chunks[k].content)
          /\ Len(chunks[k].content) > chunk_size

\* the semantic strategy returned no segment for a whitespace-only document
C14_BlankDocument ==
    /\ Returned /\ strategy = "semantic" /\ ValidPack
    /\ document # <<>>
    /\ chunks = <<>>

-----------------------------------------------------------------------------
(* C11 *)

\* the conditions of C11 on a list of match records
ConsistentRecords(recs) ==
    /\ \A k \in 1..Len(recs) :
          LET r == recs[k]
          IN  /\ 0 <= r.start /\ r.start <= r.end /\ r.end <= Len(document)
              /\ r.match = SubSeq(document, r.start + 1, r.end)
              /\ r.context = SubSeq(document, Max(0, r.start - 50) + 1,
                                    Min(Len(document), r.end + 50))
    /\ \A k \in 1..(Len(recs) - 1) : recs[k + 1].start >= recs[k].end

\* C11: every record returned by RLMContext.search has
\* 0 <= start <= end <= len(document), match == document[start:end] and
\* context == document[max(0, start-50) : min(len(document), end+50)], and
\* each record starts at or after the end of the record before it.
C11_SearchRecordsConsistent ==
    (Returned => ConsistentRecords(search_result))
    /\ (pc = "search" => ConsistentRecords(matches))

\* the scenario: "Metric \w+" finds "Metric A" at 120..128, with a context
\* that is clipped at neither end
C11_Witness ==
    /\ Returned /\ pattern = MetricPattern /\ flags = 0
    /\ Len(search_result) = 1
    /\ search_result[1].start = 120 /\ search_result[1].end = 128
    /\ search_result[1].match = <<"M", "e", "t", "r", "i", "c", " ", "A">>
    /\ Len(search_result[1].context) = 108

-----------------------------------------------------------------------------
(* C15 *)

\* C15: between calls, once tasks are pending, the chunks of pending_tasks
\* are the chunks of the context's current chunk list that pass the filter,
\* in chunk order, and every pending task's chunk.index is less than the
\* total_chunks that to_task_params reports for it.
C15_PendingTasksCurrent ==
    (pc = "idle" /\ pending_tasks # <<>>) =>
        /\ [k \in 1..Len(pending_tasks) |-> pending_tasks[k].chunk]
              = selected_chunks(chunks, chunk_filter)
        /\ \A k \in 1..Len(pending_tasks) :
              pending_tasks[k].chunk.index < to_task_params(pending_tasks[k]).prompt.total_chunks

====
